---------------------------- MODULE Spec2Model ----------------------------
(***************************************************************************)
(* A model of the Game of Life library: the Grid cell store (grid.cpp),    *)
(* and the Zoo binary codec (zoo.cpp).                                      *)
(*                                                                         *)
(* A 32-bit word (unsigned int or int) is held as its two's complement     *)
(* representative in -2^31 .. 2^31-1: the unsigned value 2^32-1 is the     *)
(* word -1.  (int)u and (unsigned)i are then the identity on words, and    *)
(* what differs between the two types is the comparison: ULess compares    *)
(* two words as unsigned values, < compares them as ints.                  *)
(***************************************************************************)
EXTENDS Integers, Sequences, FiniteSets, TLC

VARIABLES
    grid,   \* the Grid object the calls are made on: [width, height, cells]
    call,   \* the call that has just finished, with its arguments and outcome
    file,   \* the bytes of the file written by save_binary, <<>> when absent
    world   \* the World object: its two Grid buffers [current, next]

vars == <<grid, call, file, world>>

--------------------------------------------------------------------------
(* Bounds of the exploration *)

\* largest width or height given to a constructor
MaxDim == 3
\* largest number of cells of the grid that merge is called on
MaxCells == 6
\* largest number of cells of the grid handed to merge as `other`
MaxOtherCells == 2
\* largest number of cells of the grid that crop is called on
MaxCropCells == 4
\* largest number of cells of a grid that is rotated
MaxRotateCells == 6
\* largest number of cells of a grid that is saved to a file
MaxFileCells == 9
\* rotate is called with every rotation in -MaxRot .. MaxRot
MaxRot == 5
\* largest number of cells of the grid that resize, get, set and the counts
\* are called on
MaxGridCells == 6
\* largest number of cells of the grid when every Grid operation is called
MaxAllCells == 3
\* largest number of cells of a grid saved as text
MaxAsciiCells == 6
\* a side of two decimal digits, of grids without cells saved as text
WideSide == 12
\* largest width and height in the header of a byte stream loaded
MaxHeaderSide == 3
\* largest number of cells of a world
MaxWorldCells == 9

--------------------------------------------------------------------------
(* Cells and words *)

DEAD == " "
ALIVE == "#"
Cell == {DEAD, ALIVE}

\* a < b for two words read as unsigned int
ULess(a, b) == IF (a < 0) = (b < 0) THEN a < b ELSE a >= 0

\* width * height as a cell count, for the words the model builds grids from:
\* a product with a factor 0 is 0 whatever the other factor is
CellCount(w, h) == IF w = 0 \/ h = 0 THEN 0 ELSE w * h

\* the cell count of (w, h) is below 2^31: both words are small unsigned
\* values, or one of them is 0
Allocatable(w, h) == w = 0 \/ h = 0 \/ (w > 0 /\ h > 0)

--------------------------------------------------------------------------
(* Grid *)

\* Grid::Grid(width, height): the test width < 0 || height < 0 is on unsigned
\* values and never true, so the else branch always runs and pushes
\* height * width DEAD cells
GridCtor(w, h) ==
    [width |-> w, height |-> h, cells |-> [i \in 1..CellCount(w, h) |-> DEAD]]

\* Grid::Grid()
EmptyGrid == GridCtor(0, 0)

\* Grid::validCoordinates: TRUE when (x, y) is NOT a coordinate of the grid
validCoordinates(g, x, y) ==
    x < 0 \/ y < 0 \/ x >= g.width \/ y >= g.height

\* Grid::get_index(x, y) returns x * width + y
get_index(g, x, y) == x * g.width + y

\* Grid::operator()(x, y) throws on validCoordinates(x, y)
Throws(g, x, y) == validCoordinates(g, x, y)

\* Grid::operator()(x, y) const: the cell at cells[get_index(y, x)]
\* (Sequences count from 1)
At(g, x, y) == g.cells[get_index(g, y, x) + 1]

\* Grid::operator()(x, y) = value on a valid coordinate
Put(g, x, y, v) == [g EXCEPT !.cells[get_index(g, y, x) + 1] = v]

\* every grid with at most n cells and sides of at most MaxDim that the
\* constructor and cell assignments build, and the two grids Grid(-1, 0) and
\* Grid(0, -1) whose negative argument became the unsigned word 2^32-1
Grids(n) ==
    UNION { { [width |-> w, height |-> h, cells |-> c] :
                c \in [1..CellCount(w, h) -> Cell] } :
            <<w, h>> \in { d \in (-1..MaxDim) \X (-1..MaxDim) :
                              Allocatable(d[1], d[2]) /\ CellCount(d[1], d[2]) <= n } }

--------------------------------------------------------------------------
(* Grid::resize, get, set and the counts *)

\* Grid::operator()(x, y) const as a call: it throws, or returns the cell
OperatorRead(g, x, y) ==
    IF Throws(g, x, y)
    THEN [status |-> "error", value |-> DEAD]
    ELSE [status |-> "ok", value |-> At(g, x, y)]

\* grid(x, y) = value through Grid::operator()(x, y): it throws, or the
\* cell is assigned
OperatorWrite(g, x, y, value) ==
    IF Throws(g, x, y)
    THEN [status |-> "error", grid |-> g]
    ELSE [status |-> "ok", grid |-> Put(g, x, y, value)]

\* Grid::get(x, y)
get(g, x, y) ==
    IF validCoordinates(g, x, y)
    THEN [status |-> "error", value |-> DEAD]
    ELSE OperatorRead(g, x, y)

\* a set that leaves the grid alone, without a throw, on a coordinate
\* outside the grid
set_ignoring_bad_coordinates(g, x, y, value) ==
    IF validCoordinates(g, x, y)
    THEN [status |-> "ok", grid |-> g]
    ELSE OperatorWrite(g, x, y, value)

\* Grid::set(x, y, value)
set(g, x, y, value) ==
    IF validCoordinates(g, x, y)
    THEN [status |-> "error", grid |-> g]
    ELSE OperatorWrite(g, x, y, value)

\* Grid::get_total_cells(): width * height
get_total_cells(g) == CellCount(g.width, g.height)

\* the loops of get_alive_cells and get_dead_cells from iteration k on,
\* i = k div width the row and j = k mod width the column: count the cells
\* (*this)(j, i) equal to `wanted`
RECURSIVE CountLoop(_, _, _, _)
CountLoop(g, wanted, k, count) ==
    IF k >= CellCount(g.width, g.height)
    THEN [status |-> "ok", value |-> count]
    ELSE LET i == k \div g.width
             j == k % g.width
         IN  IF Throws(g, j, i)
             THEN [status |-> "error", value |-> 0]
             ELSE CountLoop(g, wanted, k + 1,
                            IF At(g, j, i) = wanted THEN count + 1 ELSE count)

\* Grid::get_alive_cells()
get_alive_cells(g) == CountLoop(g, ALIVE, 0, 0)

\* a get_dead_cells whose outer loop starts at row 1
get_dead_cells_from_row_1(g) == CountLoop(g, DEAD, IF g.width > 0 THEN g.width ELSE 0, 0)

\* Grid::get_dead_cells()
get_dead_cells(g) == CountLoop(g, DEAD, 0, 0)

\* the loops of resize from iteration k on: i = k div width is the row and
\* j = k mod width the column of the new grid; the tests i < this->height
\* and j < this->width compare unsigned values
RECURSIVE ResizeLoop(_, _, _, _, _)
ResizeLoop(g, width, height, k, newCells) ==
    IF k >= CellCount(width, height)
    THEN [status |-> "ok",
          grid |-> [width |-> width, height |-> height, cells |-> newCells]]
    ELSE LET i == k \div width
             j == k % width
         IN  IF ULess(i, g.height) /\ ULess(j, g.width)
             THEN IF Throws(g, j, i)
                  THEN [status |-> "error", grid |-> g]
                  ELSE ResizeLoop(g, width, height, k + 1, Append(newCells, At(g, j, i)))
             ELSE ResizeLoop(g, width, height, k + 1, Append(newCells, DEAD))

\* a resize that takes a negative size for 0
resize_clamping(g, width, height) ==
    ResizeLoop(g, IF width < 0 THEN 0 ELSE width,
               IF height < 0 THEN 0 ELSE height, 0, <<>>)

\* a resize that keeps the cells in the order of the old storage, as
\* cells.resize(width * height, Cell::DEAD) would
resize_flat(g, width, height) ==
    IF width < 0 \/ height < 0
    THEN [status |-> "ok", grid |-> g]
    ELSE [status |-> "ok",
          grid |-> [width |-> width, height |-> height,
                    cells |-> [n \in 1..CellCount(width, height) |->
                                 IF n <= Len(g.cells) THEN g.cells[n] ELSE DEAD]]]

\* a resize that sets width and height and leaves the cells as they were
resize_without_cells(g, width, height) ==
    IF width < 0 \/ height < 0
    THEN [status |-> "ok", grid |-> g]
    ELSE [status |-> "ok", grid |-> [g EXCEPT !.width = width, !.height = height]]

\* Grid::resize(width, height): the outcome and the grid it leaves; a
\* negative size returns at once
resize(g, width, height) ==
    IF width < 0 \/ height < 0
    THEN [status |-> "ok", grid |-> g]
    ELSE ResizeLoop(g, width, height, 0, <<>>)

--------------------------------------------------------------------------
(* Grid::merge *)

\* the loops of merge from iteration k on, k counting the (i, j) pairs in
\* the order the loops visit them: i = row of other, j = column of other.
\* A throw of operator() ends the loops with the cells written so far.
RECURSIVE MergeLoop(_, _, _, _, _, _)
MergeLoop(g, other, x0, y0, alive_only, k) ==
    IF k >= CellCount(other.width, other.height)
    THEN [status |-> "ok", grid |-> g]
    ELSE LET i == k \div other.width
             j == k % other.width
         IN  IF At(other, j, i) = ALIVE
             THEN IF Throws(g, j + y0, i + x0)
                  THEN [status |-> "error", grid |-> g]
                  ELSE MergeLoop(Put(g, j + y0, i + x0, ALIVE),
                                 other, x0, y0, alive_only, k + 1)
             ELSE IF alive_only = FALSE
                  THEN IF Throws(g, j, i)
                       THEN [status |-> "error", grid |-> g]
                       ELSE MergeLoop(Put(g, j, i, DEAD),
                                      other, x0, y0, alive_only, k + 1)
                  ELSE MergeLoop(g, other, x0, y0, alive_only, k + 1)

\* a merge whose else branch writes DEAD whatever alive_only is
merge_ignoring_alive_only(g, other, x0, y0, alive_only) ==
    IF validCoordinates(g, x0, y0)
    THEN [status |-> "error", grid |-> g]
    ELSE IF ULess(g.height - x0, other.height) \/ ULess(g.width - y0, other.width)
         THEN [status |-> "error", grid |-> g]
         ELSE MergeLoop(g, other, x0, y0, FALSE, 0)

\* Grid::merge(other, x0, y0, alive_only): the outcome and the grid it leaves
merge(g, other, x0, y0, alive_only) ==
    IF validCoordinates(g, x0, y0)
    THEN [status |-> "error", grid |-> g]
    ELSE IF ULess(g.height - x0, other.height) \/ ULess(g.width - y0, other.width)
         THEN [status |-> "error", grid |-> g]
         ELSE MergeLoop(g, other, x0, y0, alive_only, 0)

--------------------------------------------------------------------------
(* Grid::crop *)

\* the loops of crop from iteration k on: the outer loop runs i over
\* x0 .. x1-1, the inner loop j over y0 .. y1-1, and each iteration does
\* newGrid(i - x0, j - y0) = (*this)(j, i).  A throw of (*this)(j, i) ends
\* the call; newGrid is lost with it.
RECURSIVE CropLoop(_, _, _, _, _, _, _)
CropLoop(g, newGrid, x0, y0, x1, y1, k) ==
    IF k >= (x1 - x0) * (y1 - y0)
    THEN [status |-> "ok", result |-> newGrid]
    ELSE LET i == x0 + (k \div (y1 - y0))
             j == y0 + (k % (y1 - y0))
         IN  IF Throws(g, j, i)
             THEN [status |-> "error", result |-> EmptyGrid]
             ELSE CropLoop(g, Put(newGrid, i - x0, j - y0, At(g, j, i)),
                           x0, y0, x1, y1, k + 1)

\* Grid::crop(x0, y0, x1, y1): the outcome and the grid returned.  The loop
\* counters are size_t: a negative x0 or y0 starts its loop at 2^64 - |x0|,
\* above every x1, and that loop has no iteration.
crop(g, x0, y0, x1, y1) ==
    IF validCoordinates(g, x0, y0) /\ validCoordinates(g, x1, y1)
    THEN [status |-> "error", result |-> EmptyGrid]
    ELSE IF x0 > x1 \/ y0 > y1
         THEN [status |-> "error", result |-> EmptyGrid]
         ELSE IF x0 < 0 \/ y0 < 0
              THEN [status |-> "ok", result |-> GridCtor(x1 - x0, y1 - y0)]
              ELSE CropLoop(g, GridCtor(x1 - x0, y1 - y0), x0, y0, x1, y1, 0)

--------------------------------------------------------------------------
(* Grid::rotate *)

\* a % b of C++ for b > 0: the remainder has the sign of a
CRem(a, b) == IF a >= 0 THEN a % b ELSE -((-a) % b)

\* the first switch of rotate: -1, -2, -3 become 3, 2, 1
NormalisedCase(caseId) ==
    CASE caseId = -1 -> 3
      [] caseId = -2 -> 2
      [] caseId = -3 -> 1
      [] OTHER -> caseId

\* the second switch of rotate: where the first source cell goes.  newX is
\* the row and newY the column of newGrid: the write is newGrid(newY, newX).
StartX(caseId, newGrid) ==
    IF caseId \in {2, 3} THEN newGrid.height - 1 ELSE 0

StartY(caseId, newGrid) ==
    IF caseId \in {1, 2} THEN newGrid.width - 1 ELSE 0

\* the switch at the end of the inner loop body
InnerX(caseId, newX) ==
    CASE caseId = 1 -> newX + 1
      [] caseId = 3 -> newX - 1
      [] OTHER -> newX

InnerY(caseId, newY) ==
    CASE caseId = 2 -> newY - 1
      [] caseId \in {1, 3} -> newY
      [] OTHER -> newY + 1

\* the switch at the end of the outer loop body
OuterX(caseId, newX, newGrid) ==
    CASE caseId = 1 -> 0
      [] caseId = 2 -> newX - 1
      [] caseId = 3 -> newGrid.height - 1
      [] OTHER -> newX + 1

OuterY(caseId, newY, newGrid) ==
    CASE caseId = 1 -> newY - 1
      [] caseId = 2 -> newGrid.width - 1
      [] caseId = 3 -> newY + 1
      [] OTHER -> 0

\* the loops of rotate from iteration k on: i = k div width is the source
\* row, j = k mod width the source column; the body copies (*this)(j, i) to
\* newGrid(newY, newX), moves (newX, newY) by the inner switch and, after the
\* last column of a row, by the outer switch
RECURSIVE RotateLoop(_, _, _, _, _, _)
RotateLoop(g, newGrid, caseId, newX, newY, k) ==
    IF k >= CellCount(g.width, g.height)
    THEN [status |-> "ok", result |-> newGrid]
    ELSE LET i == k \div g.width
             j == k % g.width
             ix == InnerX(caseId, newX)
             iy == InnerY(caseId, newY)
             rowEnds == (j = g.width - 1)
         IN  IF Throws(newGrid, newY, newX) \/ Throws(g, j, i)
             THEN [status |-> "error", result |-> EmptyGrid]
             ELSE RotateLoop(g, Put(newGrid, newY, newX, At(g, j, i)), caseId,
                             IF rowEnds THEN OuterX(caseId, ix, newGrid) ELSE ix,
                             IF rowEnds THEN OuterY(caseId, iy, newGrid) ELSE iy,
                             k + 1)

\* a rotate without the first switch: a negative remainder falls into the
\* default branches
rotate_without_normalisation(g, rotation) ==
    LET caseId == CRem(rotation, 4)
        newGrid == IF CRem(rotation, 2) = 0
                   THEN GridCtor(g.width, g.height)
                   ELSE GridCtor(g.height, g.width)
    IN  RotateLoop(g, newGrid, caseId,
                   StartX(caseId, newGrid), StartY(caseId, newGrid), 0)

\* Grid::rotate(rotation): the outcome and the grid returned.  A grid with
\* a side of 0 has no inner loop iteration and newGrid is returned as built.
rotate(g, rotation) ==
    LET caseId == NormalisedCase(CRem(rotation, 4))
        newGrid == IF CRem(rotation, 2) = 0
                   THEN GridCtor(g.width, g.height)
                   ELSE GridCtor(g.height, g.width)
    IN  RotateLoop(g, newGrid, caseId,
                   StartX(caseId, newGrid), StartY(caseId, newGrid), 0)

--------------------------------------------------------------------------
(* Zoo: the ascii codec.  A text is a sequence of characters, each a string
   of length one; an input stream is a position in the text (the number of
   characters consumed) with its eofbit and failbit. *)

NewLine == "\n"

DigitChars == <<"0", "1", "2", "3", "4", "5", "6", "7", "8", "9">>

IsDigit(c) == \E d \in 1..10 : DigitChars[d] = c

DigitValue(c) == (CHOOSE d \in 1..10 : DigitChars[d] = c) - 1

\* out << n for an unsigned n: its decimal digits, the first one first
RECURSIVE Decimal(_)
Decimal(n) ==
    IF n < 10
    THEN <<DigitChars[n + 1]>>
    ELSE Append(Decimal(n \div 10), DigitChars[(n % 10) + 1])

\* the inner loop of save_ascii for row i: (char)grid(j, i) for j < width
AsciiRow(g, i) == [j \in 1..g.width |-> At(g, j - 1, i)]

\* the outer loop of save_ascii from row i on: each row and its "\n"
RECURSIVE AsciiRows(_, _)
AsciiRows(g, i) ==
    IF i >= g.height
    THEN <<>>
    ELSE AsciiRow(g, i) \o <<NewLine>> \o AsciiRows(g, i + 1)

\* a save_ascii that writes "\n" after the header only
save_ascii_without_row_ends(g) ==
    Decimal(g.width) \o <<" ">> \o Decimal(g.height) \o <<NewLine>>
        \o [k \in 1..Len(g.cells) |-> AsciiRow(g, (k - 1) \div g.width)[((k - 1) % g.width) + 1]]

\* Zoo::save_ascii(path, grid): the text written
save_ascii(g) ==
    Decimal(g.width) \o <<" ">> \o Decimal(g.height) \o <<NewLine>> \o AsciiRows(g, 0)

\* std::ifstream in(path): nothing consumed, no bit set
StreamStart == [pos |-> 0, eof |-> FALSE, fail |-> FALSE]

\* in.good()
Good(s) == ~s.eof /\ ~s.fail

\* whether in.get() on stream s of the text reads a character, which is
\* chars[s.pos + 1]
Gets(chars, s) == Good(s) /\ s.pos < Len(chars)

\* the stream after in.get() or in.get(a): a stream that is not good only
\* gets its failbit set; at the end of the text eofbit and failbit are set
StreamGet(chars, s) ==
    IF ~Good(s)
    THEN [s EXCEPT !.fail = TRUE]
    ELSE IF s.pos >= Len(chars)
         THEN [s EXCEPT !.eof = TRUE, !.fail = TRUE]
         ELSE [s EXCEPT !.pos = @ + 1]

\* the white space operator>> skips
IsSpace(c) == c \in {" ", NewLine}

\* the position after the white space at position pos
RECURSIVE SkipSpace(_, _)
SkipSpace(chars, pos) ==
    IF pos < Len(chars) /\ IsSpace(chars[pos + 1])
    THEN SkipSpace(chars, pos + 1)
    ELSE pos

\* the digits at position pos: where they end and the number they spell
\* after the digits spelling n
RECURSIVE ReadDigits(_, _, _)
ReadDigits(chars, pos, n) ==
    IF pos < Len(chars) /\ IsDigit(chars[pos + 1])
    THEN ReadDigits(chars, pos + 1, n * 10 + DigitValue(chars[pos + 1]))
    ELSE [pos |-> pos, value |-> n]

\* in >> n for an unsigned n declared without a value.  A stream that is
\* not good, or that ends in the white space, leaves n as it was
\* ("untouched"); no digit stores 0 and sets failbit; digits that run to
\* the end of the text set eofbit.  Texts with a sign are not modelled.
ExtractUnsigned(chars, s) ==
    IF ~Good(s)
    THEN [stream |-> [s EXCEPT !.fail = TRUE], kind |-> "untouched", value |-> 0]
    ELSE LET p == SkipSpace(chars, s.pos)
             d == ReadDigits(chars, p, 0)
         IN  IF p >= Len(chars)
             THEN [stream |-> [pos |-> p, eof |-> TRUE, fail |-> TRUE],
                   kind |-> "untouched", value |-> 0]
             ELSE IF d.pos = p
                  THEN [stream |-> [pos |-> p, eof |-> FALSE, fail |-> TRUE],
                        kind |-> "stored", value |-> 0]
                  ELSE [stream |-> [pos |-> d.pos, eof |-> d.pos >= Len(chars),
                                    fail |-> FALSE],
                        kind |-> "stored", value |-> d.value]

\* the values an unsigned int read without having been given one may show
UninitialisedWords == {0, 1}

\* the values a char read without having been given one may show: ALIVE,
\* DEAD, or a character that is neither
UninitialisedChars == {ALIVE, DEAD, "?"}

\* the loops of load_ascii on row i; j = -1 is the test of the outer loop,
\* j >= 0 the test of the inner loop at column j.  The set of outcomes:
\* in.get(a) that reads nothing leaves the fresh char a without a value.
RECURSIVE AsciiLoop(_, _, _, _, _)
AsciiLoop(chars, s, toAdd, i, j) ==
    IF j = -1
    THEN IF i < toAdd.height /\ ~s.eof
         THEN AsciiLoop(chars, StreamGet(chars, s), toAdd, i, 0)
         ELSE {[status |-> "ok", grid |-> toAdd]}
    ELSE IF j < toAdd.width /\ ~s.eof
         THEN LET as == IF Gets(chars, s) THEN {chars[s.pos + 1]}
                        ELSE UninitialisedChars
                  t == StreamGet(chars, s)
              IN  UNION {IF a \in Cell
                         THEN LET w == OperatorWrite(toAdd, j, i, a)
                              IN  IF w.status = "ok"
                                  THEN AsciiLoop(chars, t, w.grid, i, j + 1)
                                  ELSE {[status |-> "error", grid |-> EmptyGrid]}
                         ELSE {[status |-> "error", grid |-> EmptyGrid]} : a \in as}
         ELSE AsciiLoop(chars, s, toAdd, i + 1, -1)

\* Zoo::load_ascii(path) of a file that opens and holds the text: the set
\* of its outcomes, each the status and the grid returned
load_ascii(chars) ==
    LET w == ExtractUnsigned(chars, StreamStart)
        h == ExtractUnsigned(chars, w.stream)
        widths == IF w.kind = "untouched" THEN UninitialisedWords ELSE {w.value}
        heights == IF h.kind = "untouched" THEN UninitialisedWords ELSE {h.value}
    IN  UNION {AsciiLoop(chars, h.stream, GridCtor(width, height), 0, -1) :
                  width \in widths, height \in heights}

--------------------------------------------------------------------------
(* Zoo: the binary codec.  A byte is a number in 0 .. 255; a string of '0'
   and '1' characters is a sequence of the numbers 0 and 1, the character
   at C++ index k being element k + 1. *)

\* byte n (0 = lowest) of the word w: out.write((char*)&w, sizeof(int))
\* writes bytes 0, 1, 2, 3 in this order on a little-endian machine
WordByte(w, n) == (w \div (256 ^ n)) % 256

\* std::bitset<8>(byte).to_string(): the most significant bit first
BitString(byte) == [k \in 1..8 |-> (byte \div (2 ^ (8 - k))) % 2]

\* integer << 1 on a 32-bit int, the bit shifted out of the word being lost
ShiftLeft1(x) ==
    IF x >= 1073741824 THEN (x - 1073741824 - 1073741824) * 2
    ELSE IF x < -1073741824 THEN (x + 1073741824 + 1073741824) * 2
    ELSE x * 2

\* the loops of convert_to_int from step n on: step n reads character n % 8
\* of data.substr(24 - (n div 8) * 8, 8)
RECURSIVE ConvertLoop(_, _, _)
ConvertLoop(data, n, integer) ==
    IF n >= 32 THEN integer
    ELSE ConvertLoop(data, n + 1,
                     ShiftLeft1(integer) + data[(24 - (n \div 8) * 8) + (n % 8) + 1])

\* s.substr(pos, n): throws std::out_of_range when pos is beyond the end
\* of s, and else is the n characters from index pos on, or as many as
\* there are
Substr(s, pos, n) ==
    IF pos > Len(s)
    THEN [status |-> "error", value |-> <<>>]
    ELSE [status |-> "ok",
          value |-> SubSeq(s, pos + 1, IF pos + n < Len(s) THEN pos + n ELSE Len(s))]

\* what byte[k] may show for the k at and beyond the end of a byte string
\* that lacks n characters: the '\0' at index size(), which is not '1', and
\* beyond it whatever the memory holds
BeyondEnd(n) ==
    IF n = 0 THEN {<<>>}
    ELSE {<<0>> \o t : t \in [1..(n - 1) -> {0, 1}]}

\* convert_to_int(data): the set of its outcomes.  data.substr(24, 8), the
\* first one taken, throws for a string of fewer than 24 characters; for
\* one of 24 to 31 characters it is short and byte[k] reads beyond its end.
convert_to_int(data) ==
    IF Len(data) < 24
    THEN {[status |-> "error", value |-> 0]}
    ELSE {[status |-> "ok", value |-> ConvertLoop(data \o beyond, 0, 0)] :
             beyond \in BeyondEnd(32 - Len(data))}

\* convert_byte(data): binary = binary << 1, plus 1 on a '1', over the 8
\* characters from index 0
RECURSIVE ConvertByteLoop(_, _, _)
ConvertByteLoop(data, k, binary) ==
    IF k >= 8 THEN binary
    ELSE ConvertByteLoop(data, k + 1, ((binary * 2) % 256) + data[k + 1])

convert_byte(data) == ConvertByteLoop(data, 0, 0)

\* the string save_binary builds for byte k of the body: "00000000" with
\* byte[7 - j] = '1' when cell i = 8k + j, at (i % width, i / width), is ALIVE
BodyString(g, k) ==
    [c \in 1..8 |->
        LET j == 7 - (c - 1)
            i == 8 * k + j
        IN  IF i < CellCount(g.width, g.height)
               /\ At(g, i % g.width, i \div g.width) = ALIVE
            THEN 1 ELSE 0]

\* the same string with byte[j] = '1' in place of byte[7 - j] = '1'
BodyStringForward(g, k) ==
    [c \in 1..8 |->
        LET j == c - 1
            i == 8 * k + j
        IN  IF i < CellCount(g.width, g.height)
               /\ At(g, i % g.width, i \div g.width) = ALIVE
            THEN 1 ELSE 0]

\* ceil((double)get_total_cells() / 8)
BytesAdded(g) == (CellCount(g.width, g.height) + 7) \div 8

\* the 8 bytes save_binary writes first: width, and height = get_width()
SavedHeader(g) ==
    [n \in 1..8 |-> WordByte(g.width, (n - 1) % 4)]

\* a save_binary that fills each byte from its first character on
save_binary_forward(g) ==
    SavedHeader(g) \o [k \in 1..BytesAdded(g) |-> convert_byte(BodyStringForward(g, k - 1))]

\* Zoo::save_binary(path, grid): the bytes written to the file
save_binary(g) ==
    SavedHeader(g) \o [k \in 1..BytesAdded(g) |-> convert_byte(BodyString(g, k - 1))]

\* the string `bits` of load_binary: the bit strings of the bytes read
Bits(bytes) == [n \in 1..(8 * Len(bytes)) |-> BitString(bytes[((n - 1) \div 8) + 1])[((n - 1) % 8) + 1]]

\* the loops of a load_binary without the test (i + 1) * 8 > bits.size():
\* the cells of a byte the file lacks stay DEAD
RECURSIVE LoadLoopWithoutTest(_, _, _, _)
LoadLoopWithoutTest(toAdd, bits, width, cellIndex) ==
    IF cellIndex >= CellCount(toAdd.width, toAdd.height)
    THEN [status |-> "ok", result |-> toAdd]
    ELSE LET i == cellIndex \div 8
             j == cellIndex % 8
         IN  IF (i + 1) * 8 <= Len(bits) /\ bits[i * 8 + (7 - j) + 1] = 1
             THEN LoadLoopWithoutTest(
                      Put(toAdd, cellIndex % width, cellIndex \div width, ALIVE),
                      bits, width, cellIndex + 1)
             ELSE LoadLoopWithoutTest(toAdd, bits, width, cellIndex + 1)

\* the loops of load_binary from cell cellIndex on (byte i = cellIndex div 8
\* of the body, j = cellIndex mod 8): at the first cell of a byte the test
\* (i + 1) * 8 > bits.size() throws; a '1' at byte[7 - j] makes the cell
\* (cellIndex % width, cellIndex / width) ALIVE
RECURSIVE LoadLoop(_, _, _, _)
LoadLoop(toAdd, bits, width, cellIndex) ==
    IF cellIndex >= CellCount(toAdd.width, toAdd.height)
    THEN [status |-> "ok", result |-> toAdd]
    ELSE LET i == cellIndex \div 8
             j == cellIndex % 8
         IN  IF j = 0 /\ (i + 1) * 8 > Len(bits)
             THEN [status |-> "error", result |-> EmptyGrid]
             ELSE IF bits[i * 8 + (7 - j) + 1] = 1
                  THEN IF Throws(toAdd, cellIndex % width, cellIndex \div width)
                       THEN [status |-> "error", result |-> EmptyGrid]
                       ELSE LoadLoop(Put(toAdd, cellIndex % width, cellIndex \div width, ALIVE),
                                     bits, width, cellIndex + 1)
                  ELSE LoadLoop(toAdd, bits, width, cellIndex + 1)

\* load_binary after its header: a header asking for 2^31 cells or more
\* takes the constructor out of memory (std::bad_alloc); bits.substr(64)
\* throws for a file of fewer than 8 bytes
LoadBody(bits, width, height) ==
    IF ~Allocatable(width, height) \/ Substr(bits, 64, Len(bits)).status = "error"
    THEN [status |-> "error", result |-> EmptyGrid]
    ELSE LoadLoop(GridCtor(width, height), Substr(bits, 64, Len(bits)).value, width, 0)

\* Zoo::load_binary(path) of a file that opens and holds the bytes: the
\* set of its outcomes, each the status and the grid returned
load_binary(bytes) ==
    LET bits == Bits(bytes)
        first == Substr(bits, 0, 32)
        second == Substr(bits, 32, 32)
    IN  UNION {IF width.status = "error" \/ second.status = "error"
               THEN {[status |-> "error", result |-> EmptyGrid]}
               ELSE {IF height.status = "error"
                     THEN [status |-> "error", result |-> EmptyGrid]
                     ELSE LoadBody(bits, width.value, height.value) :
                        height \in convert_to_int(second.value)} :
                  width \in convert_to_int(first.value)}

--------------------------------------------------------------------------
(* The calls *)

--------------------------------------------------------------------------
(* World.  src/world.cpp holds the documentation of the class and no code:
   the operations below follow the description of World in the
   specification, on the Grid operations modelled above. *)

\* World::World(): two empty grids
World == [current |-> EmptyGrid, next |-> EmptyGrid]

\* World::World(initial_state): the grid given becomes current, next is a
\* grid of the same size with every cell DEAD
WorldOf(initial_state) ==
    [current |-> initial_state,
     next |-> GridCtor(initial_state.width, initial_state.height)]

\* World::get_state(): the current grid
get_state(w) == w.current

\* whether the neighbour at (x + dx, y + dy) of the cell (x, y) counts: with
\* toroidal the coordinates are taken modulo width and height; without, a
\* coordinate outside the grid is DEAD
NeighbourAlive(w, x, y, toroidal, dx, dy) ==
    IF toroidal
    THEN At(w.current, (x + dx) % w.current.width, (y + dy) % w.current.height) = ALIVE
    ELSE /\ ~validCoordinates(w.current, x + dx, y + dy)
         /\ At(w.current, x + dx, y + dy) = ALIVE

\* the 3 x 3 block around (x, y) from its position k on, row by row; the
\* position 4 is the centre and is not counted
RECURSIVE NeighbourLoop(_, _, _, _, _, _)
NeighbourLoop(w, x, y, toroidal, k, count) ==
    IF k > 8 THEN count
    ELSE NeighbourLoop(w, x, y, toroidal, k + 1,
             IF k # 4 /\ NeighbourAlive(w, x, y, toroidal, (k % 3) - 1, (k \div 3) - 1)
             THEN count + 1 ELSE count)

\* a count_neighbours that never wraps
count_neighbours_ignoring_toroidal(w, x, y, toroidal) ==
    NeighbourLoop(w, x, y, FALSE, 0, 0)

\* World::count_neighbours(x, y, toroidal) for a cell (x, y) of the world
count_neighbours(w, x, y, toroidal) == NeighbourLoop(w, x, y, toroidal, 0, 0)

\* a rule under which an ALIVE cell lives on with 3 neighbours only
NextCellThreeOnly(cell, n) == IF n = 3 THEN ALIVE ELSE DEAD

\* the rule of the game: the next state of a cell with n ALIVE neighbours
NextCell(cell, n) ==
    IF cell = ALIVE
    THEN IF n = 2 \/ n = 3 THEN ALIVE ELSE DEAD
    ELSE IF n = 3 THEN ALIVE ELSE DEAD

\* a step that writes only the cells that become ALIVE
RECURSIVE StepLoopAliveOnly(_, _, _, _)
StepLoopAliveOnly(w, toroidal, k, next) ==
    IF k >= CellCount(w.current.width, w.current.height)
    THEN [current |-> next, next |-> w.current]
    ELSE LET x == k % w.current.width
             y == k \div w.current.width
             cell == NextCell(At(w.current, x, y), count_neighbours(w, x, y, toroidal))
         IN  StepLoopAliveOnly(w, toroidal, k + 1,
                               IF cell = ALIVE THEN Put(next, x, y, cell) ELSE next)

step_writing_alive_only(w, toroidal) == StepLoopAliveOnly(w, toroidal, 0, w.next)

\* the loop of step from the cell k on, (k mod width, k div width): every
\* cell of next is assigned from current; after the last one the two
\* buffers are swapped
RECURSIVE StepLoop(_, _, _, _)
StepLoop(w, toroidal, k, next) ==
    IF k >= CellCount(w.current.width, w.current.height)
    THEN [current |-> next, next |-> w.current]
    ELSE LET x == k % w.current.width
             y == k \div w.current.width
         IN  StepLoop(w, toroidal, k + 1,
                      Put(next, x, y,
                          NextCell(At(w.current, x, y),
                                   count_neighbours(w, x, y, toroidal))))

\* World::step(toroidal): the world after the step
step(w, toroidal) == StepLoop(w, toroidal, 0, w.next)

\* the record of a finished call: the operation, its integer arguments, its
\* alive_only argument (merge), its Cell argument (set), the grid before the
\* call, the grid passed as `other`, whether it returned ("ok") or threw
\* ("error"), and the grid it returned
Done(op, args, alive_only, value, pre, other, status, result) ==
    [op |-> op, args |-> args, alive_only |-> alive_only, value |-> value,
     pre |-> pre, other |-> other, status |-> status, result |-> result]

NoCall == Done("none", <<>>, FALSE, DEAD, EmptyGrid, EmptyGrid, "ok", EmptyGrid)

\* the arguments tried for a width, a height or the corner of a merge
ArgDims == -1..MaxDim
\* the arguments tried for a coordinate: one below 0 to one above MaxDim
ArgCoords == -1..(MaxDim + 1)

Init ==
    /\ grid = EmptyGrid
    /\ call = NoCall
    /\ file = <<>>
    /\ world = World

\* grid = Grid(w, h); a constructor asked for 2^31 cells or more is not
\* explored, nor one asked for more than maxCells cells
Construct(w, h, maxCells) ==
    /\ call = NoCall
    /\ Allocatable(w, h)
    /\ CellCount(w, h) <= maxCells
    /\ grid' = GridCtor(w, h)
    /\ call' = Done("construct", <<w, h>>, FALSE, DEAD, grid, EmptyGrid, "ok", grid')
    /\ UNCHANGED <<file, world>>

\* grid.set(x, y, value)
Set(x, y, value) ==
    /\ call = NoCall
    /\ LET r == set(grid, x, y, value)
       IN  /\ grid' = r.grid
           /\ call' = Done("set", <<x, y>>, FALSE, value, grid, EmptyGrid,
                           r.status, EmptyGrid)
    /\ UNCHANGED <<file, world>>

\* grid.get(x, y): the cell returned is kept in the record of the call
Get(x, y) ==
    /\ call = NoCall
    /\ LET r == get(grid, x, y)
       IN  call' = Done("get", <<x, y>>, FALSE, r.value, grid, EmptyGrid,
                        r.status, EmptyGrid)
    /\ UNCHANGED <<grid, file, world>>

\* Cell cell = grid(x, y) on a constant grid
RefRead(x, y) ==
    /\ call = NoCall
    /\ LET r == OperatorRead(grid, x, y)
       IN  call' = Done("ref_read", <<x, y>>, FALSE, r.value, grid, EmptyGrid,
                        r.status, EmptyGrid)
    /\ UNCHANGED <<grid, file, world>>

\* grid(x, y) = value
RefWrite(x, y, value) ==
    /\ call = NoCall
    /\ LET r == OperatorWrite(grid, x, y, value)
       IN  /\ grid' = r.grid
           /\ call' = Done("ref_write", <<x, y>>, FALSE, value, grid, EmptyGrid,
                           r.status, EmptyGrid)
    /\ UNCHANGED <<file, world>>

\* grid.resize(width, height); a resize to more than maxCells cells is not
\* explored
Resize(width, height, maxCells) ==
    /\ call = NoCall
    /\ (width >= 0 /\ height >= 0) => CellCount(width, height) <= maxCells
    /\ LET r == resize(grid, width, height)
       IN  /\ grid' = r.grid
           /\ call' = Done("resize", <<width, height>>, FALSE, DEAD, grid, EmptyGrid,
                           r.status, EmptyGrid)
    /\ UNCHANGED <<file, world>>

\* grid.get_total_cells(), grid.get_alive_cells(), grid.get_dead_cells():
\* the three numbers returned are the arguments kept in the record
Counts ==
    /\ call = NoCall
    /\ LET a == get_alive_cells(grid)
           d == get_dead_cells(grid)
       IN  call' = Done("counts", <<get_total_cells(grid), a.value, d.value>>, FALSE,
                        DEAD, grid, EmptyGrid,
                        IF a.status = "ok" /\ d.status = "ok" THEN "ok" ELSE "error",
                        EmptyGrid)
    /\ UNCHANGED <<grid, file, world>>

\* grid.merge(other, x0, y0, alive_only)
Merge(other, x0, y0, alive_only) ==
    /\ call = NoCall
    /\ LET r == merge(grid, other, x0, y0, alive_only)
       IN  /\ grid' = r.grid
           /\ call' = Done("merge", <<x0, y0>>, alive_only, DEAD, grid, other,
                           r.status, EmptyGrid)
    /\ UNCHANGED <<file, world>>

\* grid.crop(x0, y0, x1, y1)
Crop(x0, y0, x1, y1) ==
    /\ call = NoCall
    /\ LET r == crop(grid, x0, y0, x1, y1)
       IN  call' = Done("crop", <<x0, y0, x1, y1>>, FALSE, DEAD, grid, EmptyGrid,
                        r.status, r.result)
    /\ UNCHANGED <<grid, file, world>>

\* c = grid.crop(x0, y0, x1, y1); grid.merge(c, x0, y0): the crop is merged
\* back where it was taken; a throw of crop ends the sequence
CropMerge(x0, y0, x1, y1) ==
    /\ call = NoCall
    /\ LET c == crop(grid, x0, y0, x1, y1)
           m == merge(grid, c.result, x0, y0, FALSE)
       IN  IF c.status = "error"
           THEN /\ grid' = grid
                /\ call' = Done("crop_merge", <<x0, y0, x1, y1>>, FALSE, DEAD, grid,
                                EmptyGrid, "error", EmptyGrid)
           ELSE /\ grid' = m.grid
                /\ call' = Done("crop_merge", <<x0, y0, x1, y1>>, FALSE, DEAD, grid,
                                c.result, m.status, c.result)
    /\ UNCHANGED <<file, world>>

\* grid.rotate(rotation); on a grid of 2^32-1 rows the int counters newX
\* and newY overflow, which is undefined: that call is not explored
Rotate(rotation) ==
    /\ call = NoCall
    /\ grid.height >= 0
    /\ LET r == rotate(grid, rotation)
       IN  call' = Done("rotate", <<rotation>>, FALSE, DEAD, grid, EmptyGrid,
                        r.status, r.result)
    /\ UNCHANGED <<grid, file, world>>

\* grid.rotate(rotation) and grid.rotate(rotation + 4): the first grid
\* returned is kept as the result, the second in the place of the argument
RotateShifted(rotation) ==
    /\ call = NoCall
    /\ grid.height >= 0
    /\ LET r == rotate(grid, rotation)
           s == rotate(grid, rotation + 4)
       IN  call' = Done("rotate_shifted", <<rotation>>, FALSE, DEAD, grid, s.result,
                        IF r.status = "ok" /\ s.status = "ok" THEN "ok" ELSE "error",
                        r.result)
    /\ UNCHANGED <<grid, file, world>>

\* grid.rotate(rotation).rotate(rotation).rotate(rotation).rotate(rotation);
\* a grid with a side of 2^32-1 is left out, because one of the grids in
\* between would have 2^32-1 rows
RotateFour(rotation) ==
    /\ call = NoCall
    /\ grid.width >= 0 /\ grid.height >= 0
    /\ LET r1 == rotate(grid, rotation)
           r2 == rotate(r1.result, rotation)
           r3 == rotate(r2.result, rotation)
           r4 == rotate(r3.result, rotation)
       IN  call' = Done("rotate_four", <<rotation>>, FALSE, DEAD, grid, EmptyGrid,
                        IF \A r \in {r1, r2, r3, r4} : r.status = "ok"
                        THEN "ok" ELSE "error",
                        r4.result)
    /\ UNCHANGED <<grid, file, world>>

\* Zoo::save_binary(path, grid)
SaveBinary ==
    /\ call = NoCall
    /\ file' = save_binary(grid)
    /\ call' = Done("save_binary", <<>>, FALSE, DEAD, grid, EmptyGrid, "ok", EmptyGrid)
    /\ UNCHANGED <<grid, world>>

\* Zoo::load_binary(path) of the file that save_binary has just written
LoadBinary ==
    /\ call.op = "save_binary"
    /\ \E r \in load_binary(file) :
           call' = Done("load_binary", <<>>, FALSE, DEAD, grid, EmptyGrid,
                        r.status, r.result)
    /\ UNCHANGED <<grid, file, world>>

\* the values of the bytes after the header of a stream loaded
StreamBytes == {0, 1, 255}

\* the 4 bytes of the word w, the lowest first
WordBytes(w) == [n \in 1..4 |-> WordByte(w, n - 1)]

\* Zoo::load_binary(path) of a file holding the first n bytes of the stream
\* with the header (w, h) and the body given
LoadBytes(w, h, body, n) ==
    /\ call = NoCall
    /\ n <= 8 + Len(body)
    /\ file' = SubSeq(WordBytes(w) \o WordBytes(h) \o body, 1, n)
    /\ \E r \in load_binary(file') :
          call' = Done("load_bytes", <<w, h, n>>, FALSE, DEAD, grid, EmptyGrid,
                       r.status, r.result)
    /\ UNCHANGED <<grid, world>>

\* Zoo::save_ascii(path, grid); a grid with a side of 2^32-1, whose text
\* would have ten digits in its header or 2^32-1 lines, is not explored
SaveAscii ==
    /\ call = NoCall
    /\ grid.width >= 0 /\ grid.height >= 0
    /\ file' = save_ascii(grid)
    /\ call' = Done("save_ascii", <<>>, FALSE, DEAD, grid, EmptyGrid, "ok", EmptyGrid)
    /\ UNCHANGED <<grid, world>>

\* Zoo::load_ascii(path) of the file that save_ascii has just written
LoadAscii ==
    /\ call.op = "save_ascii"
    /\ \E r \in load_ascii(file) :
          call' = Done("load_ascii", <<>>, FALSE, DEAD, grid, EmptyGrid,
                       r.status, r.grid)
    /\ UNCHANGED <<grid, file, world>>

\* the length of the header line of the text of g, its "\n" included
HeaderLength(g) == Len(Decimal(g.width)) + Len(Decimal(g.height)) + 2

\* the text with its character n taken out
DropChar(text, n) == SubSeq(text, 1, n - 1) \o SubSeq(text, n + 1, Len(text))

\* Zoo::load_ascii(path) of a file that is not in the format: the text of
\* the grid
\*   "zero": as it is, the grid having a side of 0;
\*   "cut":  cut off after n characters, n less than its length;
\*   "drop": with character n of a row or a row end taken out;
\*   "bad":  with the cell character n replaced by an x.
LoadBroken(kind) ==
    /\ call = NoCall
    /\ grid.width >= 0 /\ grid.height >= 0
    /\ LET text == save_ascii(grid)
           body == (HeaderLength(grid) + 1)..Len(text)
       IN  \E n \in 0..Len(text) :
             /\ kind = "zero" => (n = 0 /\ (grid.width = 0 \/ grid.height = 0))
             /\ kind = "cut" => n < Len(text)
             /\ kind = "drop" => n \in body
             /\ kind = "bad" => (n \in body /\ text[n] # NewLine)
             /\ file' = CASE kind = "zero" -> text
                          [] kind = "cut" -> SubSeq(text, 1, n)
                          [] kind = "drop" -> DropChar(text, n)
                          [] kind = "bad" -> [text EXCEPT ![n] = "x"]
             /\ \E r \in load_ascii(file') :
                   call' = Done(kind, <<n>>, FALSE, DEAD, grid, EmptyGrid,
                                r.status, r.grid)
    /\ UNCHANGED <<grid, world>>

\* the record of a finished call on the world: as Done, with the toroidal
\* argument and the world before the call
WorldDone(op, args, toroidal, before, result) ==
    [op |-> op, args |-> args, alive_only |-> FALSE, value |-> DEAD,
     pre |-> EmptyGrid, other |-> EmptyGrid, status |-> "ok", result |-> result,
     toroidal |-> toroidal, before |-> before]

\* world = World(initial_state): a new object, with no world before it
WorldFromGrid(initial_state) ==
    /\ call = NoCall
    /\ world' = WorldOf(initial_state)
    /\ call' = WorldDone("world", <<>>, FALSE, World, get_state(world'))
    /\ UNCHANGED <<grid, file>>

\* world.count_neighbours(x, y, toroidal) for a cell of the world; the
\* number returned is the third argument kept in the record
CountNeighbours(x, y, toroidal) ==
    /\ call = NoCall
    /\ ~validCoordinates(world.current, x, y)
    /\ call' = WorldDone("count_neighbours",
                         <<x, y, count_neighbours(world, x, y, toroidal)>>,
                         toroidal, world, EmptyGrid)
    /\ UNCHANGED <<grid, file, world>>

\* world.step(toroidal), and world.get_state() after it
Step(toroidal) ==
    /\ call = NoCall
    /\ world' = step(world, toroidal)
    /\ call' = WorldDone("step", <<>>, toroidal, world, get_state(world'))
    /\ UNCHANGED <<grid, file>>

\* the caller is done with the finished call: its temporaries go out of
\* scope and the file it wrote is removed
Release ==
    /\ call # NoCall
    /\ call' = NoCall
    /\ file' = <<>>
    /\ UNCHANGED <<grid, world>>

NextMerge ==
    \/ \E w, h \in ArgDims : Construct(w, h, MaxCells)
    \/ \E x, y \in ArgCoords, v \in Cell : Set(x, y, v)
    \/ \E other \in Grids(MaxOtherCells), x0, y0 \in ArgDims, a \in BOOLEAN :
          Merge(other, x0, y0, a)
    \/ Release

SpecMerge == Init /\ [][NextMerge]_vars

NextCrop ==
    \/ \E w, h \in ArgDims : Construct(w, h, MaxCropCells)
    \/ \E x, y \in ArgCoords, v \in Cell : Set(x, y, v)
    \/ \E x0, y0, x1, y1 \in ArgCoords : Crop(x0, y0, x1, y1)
    \/ \E x0, y0, x1, y1 \in ArgCoords : CropMerge(x0, y0, x1, y1)
    \/ Release

SpecCrop == Init /\ [][NextCrop]_vars

NextRotate ==
    \/ \E w, h \in ArgDims : Construct(w, h, MaxRotateCells)
    \/ \E x, y \in ArgCoords, v \in Cell : Set(x, y, v)
    \/ \E rotation \in (-MaxRot)..MaxRot : Rotate(rotation)
    \/ \E rotation \in (-MaxRot)..MaxRot : RotateShifted(rotation)
    \/ \E rotation \in (-MaxRot)..MaxRot : RotateFour(rotation)
    \/ Release

SpecRotate == Init /\ [][NextRotate]_vars

NextBinary ==
    \/ \E w, h \in ArgDims : Construct(w, h, MaxFileCells)
    \/ \E x, y \in ArgCoords, v \in Cell : Set(x, y, v)
    \/ SaveBinary
    \/ LoadBinary
    \/ Release

SpecBinary == Init /\ [][NextBinary]_vars

NextGrid ==
    \/ \E w, h \in ArgDims : Construct(w, h, MaxGridCells)
    \/ \E x, y \in ArgCoords, v \in Cell : Set(x, y, v)
    \/ \E x, y \in ArgCoords : Get(x, y)
    \/ \E x, y \in ArgCoords : RefRead(x, y)
    \/ \E x, y \in ArgCoords, v \in Cell : RefWrite(x, y, v)
    \/ \E w, h \in ArgDims : Resize(w, h, MaxGridCells)
    \/ Release

SpecGrid == Init /\ [][NextGrid]_vars

NextAll ==
    \/ \E w, h \in ArgDims : Construct(w, h, MaxAllCells)
    \/ \E x, y \in ArgCoords, v \in Cell : Set(x, y, v)
    \/ \E w, h \in ArgDims : Resize(w, h, MaxAllCells)
    \/ \E other \in Grids(MaxOtherCells), x0, y0 \in ArgDims, a \in BOOLEAN :
          Merge(other, x0, y0, a)
    \/ \E x0, y0, x1, y1 \in ArgDims : Crop(x0, y0, x1, y1)
    \/ \E rotation \in (-MaxRot)..MaxRot : Rotate(rotation)
    \/ Counts
    \/ Release

SpecAll == Init /\ [][NextAll]_vars

\* the sides of the grids saved as text
AsciiDims == ArgDims \cup {WideSide}

\* the ways a text is not in the format
BrokenKinds == {"zero", "cut", "drop", "bad"}

NextAscii ==
    \/ \E w, h \in AsciiDims : Construct(w, h, MaxAsciiCells)
    \/ \E x, y \in ArgCoords, v \in Cell : Set(x, y, v)
    \/ SaveAscii
    \/ LoadAscii
    \/ \E kind \in BrokenKinds : LoadBroken(kind)
    \/ Release

SpecAscii == Init /\ [][NextAscii]_vars

\* the bodies of the streams with the header (w, h): ceil(w * h / 8) bytes
Bodies(w, h) == [1..((w * h + 7) \div 8) -> StreamBytes]

NextStream ==
    \/ \E w, h \in 0..MaxHeaderSide :
          \E body \in Bodies(w, h) :
            \E n \in 0..(8 + Len(body)) : LoadBytes(w, h, body, n)
    \/ Release

SpecStream == Init /\ [][NextStream]_vars

\* the grids a world is made from: at most MaxWorldCells cells, no side of
\* 2^32-1
WorldGrids == {g \in Grids(MaxWorldCells) : g.width >= 0 /\ g.height >= 0}

NextWorld ==
    \/ \E initial_state \in WorldGrids : WorldFromGrid(initial_state)
    \/ \E x, y \in 0..MaxDim, toroidal \in BOOLEAN : CountNeighbours(x, y, toroidal)
    \/ \E toroidal \in BOOLEAN : Step(toroidal)
    \/ Release

SpecWorld == Init /\ [][NextWorld]_vars

--------------------------------------------------------------------------
(* Claims about merge *)

\* the columns (or rows) 0 .. n-1 of a side whose word is n; a side of 2^32-1
\* cells belongs to a grid without cells and has no column to name
Side(n) == IF n > 0 THEN 0..(n - 1) ELSE {}

\* x0 + ow <= w, for an offset x0 >= 0 and two sides read as unsigned values
FitsSide(x0, ow, w) ==
    /\ x0 >= 0
    /\ IF w < 0 THEN (ow >= 0 \/ x0 + ow <= w) ELSE (ow >= 0 /\ x0 + ow <= w)

\* other fits entirely inside g from the corner (x0, y0)
Fits(g, other, x0, y0) ==
    FitsSide(x0, other.width, g.width) /\ FitsSide(y0, other.height, g.height)

\* C1: after a successful merge with alive_only = false of an other that
\* fits, every destination cell (x0+i, y0+j) under other equals other's
\* cell (i, j).
C1_MergeOverwritesWindow ==
    (/\ call.op = "merge" /\ call.status = "ok" /\ ~call.alive_only
     /\ Fits(call.pre, call.other, call.args[1], call.args[2])) =>
        \A i \in Side(call.other.width), j \in Side(call.other.height) :
            /\ ~validCoordinates(grid, call.args[1] + i, call.args[2] + j)
            /\ At(grid, call.args[1] + i, call.args[2] + j) = At(call.other, i, j)

\* C2: merge of an other that has cells throws exactly when other does not
\* fit inside the destination from (x0, y0), and a merge that throws leaves
\* the destination as it was.
C2_MergeFailsIffNoFit ==
    (call.op = "merge" /\ CellCount(call.other.width, call.other.height) > 0) =>
        /\ (call.status = "error") <=>
               ~Fits(call.pre, call.other, call.args[1], call.args[2])
        /\ call.status = "error" => grid = call.pre

\* C9: a merge with alive_only = true, whether it returns or throws, leaves
\* every cell that was ALIVE before the call ALIVE, in a grid of the same
\* width and height.
C9_AliveOnlyMergeKeepsAlive ==
    (call.op = "merge" /\ call.alive_only) =>
        /\ grid.width = call.pre.width
        /\ grid.height = call.pre.height
        /\ \A x \in Side(call.pre.width), y \in Side(call.pre.height) :
              At(call.pre, x, y) = ALIVE => At(grid, x, y) = ALIVE

\* C9 witness: an alive_only merge returned and changed the grid, and a DEAD
\* cell (i, j) of other met a destination cell that was ALIVE both at
\* (x0+i, y0+j) and at (i, j)
C9_Witness ==
    /\ call.op = "merge" /\ call.alive_only /\ call.status = "ok"
    /\ \E i \in Side(call.other.width), j \in Side(call.other.height) :
          /\ At(call.other, i, j) = DEAD
          /\ ~validCoordinates(grid, call.args[1] + i, call.args[2] + j)
          /\ At(call.pre, call.args[1] + i, call.args[2] + j) = ALIVE
          /\ ~validCoordinates(grid, i, j)
          /\ At(call.pre, i, j) = ALIVE
    /\ grid # call.pre

--------------------------------------------------------------------------
(* Claims about crop *)

\* 0 <= x0 < x1 <= w for a side w read as an unsigned value: a window
\* with at least one column inside the side
WindowInSide(x0, x1, w) == 0 <= x0 /\ x0 < x1 /\ (w < 0 \/ x1 <= w)

\* the window [x0, x1) x [y0, y1) of the finished call has cells and lies
\* inside the grid the call was made on
WindowInGrid ==
    /\ WindowInSide(call.args[1], call.args[3], call.pre.width)
    /\ WindowInSide(call.args[2], call.args[4], call.pre.height)

\* C3: crop of a window inside the grid (here: one that has cells) returns
\* a grid of width x1-x0 and height y1-y0 whose cell (i, j) is the source
\* cell (x0+i, y0+j), and leaves the source as it was.
C3_CropCopiesWindow ==
    (call.op = "crop" /\ WindowInGrid) =>
        /\ call.status = "ok"
        /\ call.result.width = call.args[3] - call.args[1]
        /\ call.result.height = call.args[4] - call.args[2]
        /\ \A i \in Side(call.result.width), j \in Side(call.result.height) :
              At(call.result, i, j) = At(call.pre, call.args[1] + i, call.args[2] + j)
        /\ grid = call.pre

\* x > w for a side w read as an unsigned value
BeyondSide(x, w) == w >= 0 /\ x > w

\* C4: crop throws whenever a corner of the window lies outside the grid
\* (x0 < 0, y0 < 0, x1 > width or y1 > height) and whenever x1 < x0 or
\* y1 < y0.
C4_CropRejectsBadWindow ==
    (/\ call.op = "crop"
     /\ \/ call.args[1] < 0 \/ call.args[2] < 0
        \/ BeyondSide(call.args[3], call.pre.width)
        \/ BeyondSide(call.args[4], call.pre.height)
        \/ call.args[3] < call.args[1] \/ call.args[4] < call.args[2]) =>
        call.status = "error"

\* C8: cropping a window inside the grid (here: one that has cells) and
\* merging the crop back at (x0, y0) returns normally and leaves the grid,
\* its width, height and every cell, as it was.
C8_CropMergeRoundTrip ==
    (call.op = "crop_merge" /\ WindowInGrid) =>
        call.status = "ok" /\ grid = call.pre

--------------------------------------------------------------------------
(* Claims about rotate and the constructor *)

\* where the claim puts the source cell (x, y) of a W x H grid after n
\* quarter turns, n in 0 .. 3
Turned(n, x, y, W, H) ==
    CASE n = 1 -> <<H - 1 - y, x>>
      [] n = 2 -> <<W - 1 - x, H - 1 - y>>
      [] n = 3 -> <<y, W - 1 - x>>
      [] OTHER -> <<x, y>>

\* C7: rotate(k) returns a grid of the source's width and height for even k
\* and of swapped width and height for odd k, in which the source cell
\* (x, y) is at (H-1-y, x), (W-1-x, H-1-y), (y, W-1-x) or (x, y) for k mod 4
\* = 1, 2, 3, 0; k may be negative.  The source is left as it was.
C7_RotateMapsCells ==
    call.op = "rotate" =>
        LET k == call.args[1]
            W == call.pre.width
            H == call.pre.height
            r == call.result
        IN  /\ call.status = "ok"
            /\ grid = call.pre
            /\ r.width = (IF k % 2 = 0 THEN W ELSE H)
            /\ r.height = (IF k % 2 = 0 THEN H ELSE W)
            /\ Len(r.cells) = Len(call.pre.cells)
            /\ \A x \in Side(W), y \in Side(H) :
                  LET t == Turned(k % 4, x, y, W, H)
                  IN  /\ ~validCoordinates(r, t[1], t[2])
                      /\ At(r, t[1], t[2]) = At(call.pre, x, y)

\* C7 witness: a 3 x 2 grid with ALIVE and DEAD cells and no symmetry under
\* a half turn was rotated by a negative odd k
C7_Witness ==
    /\ call.op = "rotate" /\ call.status = "ok"
    /\ call.args[1] = -3
    /\ call.pre.width = 3 /\ call.pre.height = 2
    /\ call.pre.cells = <<ALIVE, ALIVE, DEAD, DEAD, DEAD, DEAD>>
    /\ call.result.width = 2 /\ call.result.height = 3
    /\ call.result.cells = <<DEAD, ALIVE, DEAD, ALIVE, DEAD, DEAD>>

\* C10: a constructor given a negative width or height throws or builds a
\* 0 x 0 grid; the negative argument is never kept as the unsigned word of
\* the same bits (its value modulo 2^32).
C10_NegativeSizeRejected ==
    (call.op = "construct" /\ (call.args[1] < 0 \/ call.args[2] < 0)) =>
        \/ call.status = "error"
        \/ grid.width = 0 /\ grid.height = 0

--------------------------------------------------------------------------
(* Claims about the binary codec *)

\* the body of the file: what follows the 8 bytes of the header
Body == SubSeq(file, 9, Len(file))

\* bit p of a byte, p = 0 being the least significant bit
BitUp(byte, p) == (byte \div (2 ^ p)) % 2

\* C5: loading the file that save_binary wrote for a grid (here: one that
\* has cells) returns normally a grid of the same width, the same height and
\* the same cells.
C5_BinaryRoundTrip ==
    (call.op = "load_binary" /\ CellCount(grid.width, grid.height) > 0) =>
        call.status = "ok" /\ call.result = grid

\* C6 as stated: the body has ceil(width*height/8) bytes and cell
\* i = y*width + x is the bit of byte i div 8 that lies i mod 8 positions
\* below the most significant bit.
C6_BodyMsbFirst ==
    call.op = "save_binary" =>
        /\ Len(Body) = BytesAdded(grid)
        /\ \A x \in Side(grid.width), y \in Side(grid.height) :
              LET i == y * grid.width + x
              IN  (At(grid, x, y) = ALIVE) <=> (BitUp(Body[(i \div 8) + 1], 7 - (i % 8)) = 1)

\* C6 as amended: the body has ceil(width*height/8) bytes; cell
\* i = y*width + x is the bit of byte i div 8 that lies i mod 8 positions
\* above the least significant bit, 1 for ALIVE and 0 for DEAD; the bits of
\* the last byte above the last cell are 0; and a load_binary that returns
\* has read each cell i of its grid from the same bit.
C6_BodyLsbFirst ==
    /\ call.op = "save_binary" =>
          /\ Len(Body) = BytesAdded(grid)
          /\ \A x \in Side(grid.width), y \in Side(grid.height) :
                LET i == y * grid.width + x
                IN  (At(grid, x, y) = ALIVE) <=> (BitUp(Body[(i \div 8) + 1], i % 8) = 1)
          /\ \A i \in CellCount(grid.width, grid.height)..(8 * Len(Body) - 1) :
                BitUp(Body[(i \div 8) + 1], i % 8) = 0
    /\ (call.op = "load_binary" /\ call.status = "ok") =>
          \A x \in Side(call.result.width), y \in Side(call.result.height) :
              LET i == y * call.result.width + x
              IN  (At(call.result, x, y) = ALIVE) <=> (BitUp(Body[(i \div 8) + 1], i % 8) = 1)

\* C6 witness: a 3 x 3 grid was saved and loaded back; its body has 2
\* bytes, cells 1, 3 and 8 are ALIVE, so the bytes are 2 + 8 and 1
C6_Witness ==
    /\ call.op = "load_binary" /\ call.status = "ok"
    /\ grid.width = 3 /\ grid.height = 3
    /\ grid.cells = <<DEAD, ALIVE, DEAD, ALIVE, DEAD, DEAD, DEAD, DEAD, ALIVE>>
    /\ file = <<3, 0, 0, 0, 3, 0, 0, 0, 10, 1>>
    /\ call.result = grid

--------------------------------------------------------------------------
(* Claims about resize, get, set and the counts *)

\* the finished call is a resize with a negative width or height
NegativeResize ==
    call.op = "resize" /\ (call.args[1] < 0 \/ call.args[2] < 0)

\* C11 as stated: a resize with a negative width or height throws and
\* leaves the width, the height and the cells as they were.
C11_NegativeResizeThrows ==
    NegativeResize => (call.status = "error" /\ grid = call.pre)

\* C11 as amended: a resize with a negative width or height returns
\* normally, without an error, and leaves the width, the height and the
\* cells as they were.
C11_NegativeResizeIgnored ==
    NegativeResize => (call.status = "ok" /\ grid = call.pre)

\* C11 witness: a grid with an ALIVE cell was resized to a negative width
\* and a height larger than its own
C11_Witness ==
    /\ NegativeResize /\ call.args[1] = -1 /\ call.args[2] = 3
    /\ call.pre.width = 2 /\ call.pre.height = 2
    /\ \E n \in 1..Len(grid.cells) : grid.cells[n] = ALIVE

\* C12: after resize(w', h') with w', h' >= 0 the grid has width w' and
\* height h', each cell (x, y) inside both the old and the new grid holds
\* what it held before, and every other cell is DEAD.
C12_ResizeKeepsOverlap ==
    (call.op = "resize" /\ call.args[1] >= 0 /\ call.args[2] >= 0) =>
        /\ call.status = "ok"
        /\ grid.width = call.args[1]
        /\ grid.height = call.args[2]
        /\ Len(grid.cells) = call.args[1] * call.args[2]
        /\ \A x \in Side(grid.width), y \in Side(grid.height) :
              grid.cells[y * grid.width + x + 1] =
                 IF x \in Side(call.pre.width) /\ y \in Side(call.pre.height)
                 THEN call.pre.cells[y * call.pre.width + x + 1]
                 ELSE DEAD

\* C12 witness: a 3 x 2 grid whose cells (0, 0), (2, 0) and (1, 1) are
\* ALIVE became 2 x 3: (0, 0) and (1, 1) are kept, (2, 0) is gone, the new
\* row is DEAD
C12_Witness ==
    /\ call.op = "resize" /\ call.args = <<2, 3>>
    /\ call.pre.width = 3 /\ call.pre.height = 2
    /\ call.pre.cells = <<ALIVE, DEAD, ALIVE, DEAD, ALIVE, DEAD>>
    /\ grid.cells = <<ALIVE, DEAD, DEAD, ALIVE, DEAD, DEAD>>

\* x is in [0, w) for a side w read as an unsigned value
InSide(x, w) == x >= 0 /\ (w < 0 \/ x < w)

\* C13: get, set and the indexed reference throw exactly when x is not in
\* [0, width) or y is not in [0, height); a call that throws changes no
\* cell; a call that returns has read, or written, the cell stored at
\* index y * width + x and no other.
C13_AccessChecksCoordinates ==
    call.op \in {"get", "set", "ref_read", "ref_write"} =>
        LET x == call.args[1]
            y == call.args[2]
            n == y * call.pre.width + x + 1
        IN  /\ (call.status = "error") <=>
                   ~(InSide(x, call.pre.width) /\ InSide(y, call.pre.height))
            /\ call.status = "error" => grid = call.pre
            /\ (call.status = "ok" /\ call.op \in {"get", "ref_read"}) =>
                   (grid = call.pre /\ call.value = call.pre.cells[n])
            /\ (call.status = "ok" /\ call.op \in {"set", "ref_write"}) =>
                   grid = [call.pre EXCEPT !.cells[n] = call.value]

\* C13 witness: set(2, 1, ALIVE) on a DEAD 3 x 2 grid wrote the last cell
C13_Witness ==
    /\ call.op = "set" /\ call.args = <<2, 1>> /\ call.value = ALIVE
    /\ call.pre = GridCtor(3, 2)
    /\ grid.cells = <<DEAD, DEAD, DEAD, DEAD, DEAD, ALIVE>>

\* the grids of a state: the grid itself, the grid the finished call was
\* made on, the grid it was given and the grid it returned
GridsInvolved == {grid, call.pre, call.other, call.result}

\* C14: for every grid a sequence of constructions, set, resize, merge, crop
\* and rotate calls leaves or returns, get_alive_cells() + get_dead_cells()
\* = get_total_cells() = width * height.
C14_CountsAddUp ==
    /\ \A g \in GridsInvolved :
          /\ get_alive_cells(g).status = "ok"
          /\ get_dead_cells(g).status = "ok"
          /\ get_alive_cells(g).value + get_dead_cells(g).value = get_total_cells(g)
          /\ get_total_cells(g) = g.width * g.height
    /\ call.op = "counts" =>
          /\ call.status = "ok"
          /\ call.args[2] + call.args[3] = call.args[1]
          /\ call.args[1] = grid.width * grid.height

\* C14 witness: the counts of a 3 x 1 grid with one ALIVE cell were taken:
\* 3 cells, 1 ALIVE, 2 DEAD
C14_Witness ==
    /\ call.op = "counts" /\ call.args = <<3, 1, 2>>
    /\ grid.width = 3 /\ grid.height = 1

\* C15: in every state reached by constructions, set, resize (also the
\* ignored ones) and merge (also the ones that throw), and for every grid
\* crop and rotate return, the cell storage has width * height cells.
C15_StorageMatchesSize ==
    \A g \in GridsInvolved : Len(g.cells) = g.width * g.height

\* C15 witness: a merge threw after it had written a cell, and the grid it
\* left still has width * height cells
C15_Witness ==
    /\ call.op = "merge" /\ call.status = "error"
    /\ grid # call.pre
    /\ Len(grid.cells) = grid.width * grid.height /\ Len(grid.cells) > 0

--------------------------------------------------------------------------
(* Claims about repeated and shifted rotations *)

\* C16: rotate(k) and rotate(k + 4) return grids of the same width, height
\* and cells, for negative, zero and positive k; both are the grid that
\* rotate(k mod 4) returns, k mod 4 taken in {0, 1, 2, 3}.
C16_RotatePeriodFour ==
    call.op = "rotate_shifted" =>
        /\ call.status = "ok"
        /\ call.result = call.other
        /\ call.result = rotate(call.pre, call.args[1] % 4).result
        /\ grid = call.pre

\* C16 witness: rotate(-3) and rotate(1) of a 3 x 2 grid returned the same
\* 2 x 3 grid, which is not the source
C16_Witness ==
    /\ call.op = "rotate_shifted" /\ call.args[1] = -3
    /\ call.pre.width = 3 /\ call.pre.height = 2
    /\ call.pre.cells = <<ALIVE, ALIVE, DEAD, DEAD, DEAD, DEAD>>
    /\ call.result = call.other
    /\ call.result.width = 2 /\ call.result.height = 3
    /\ call.result.cells = <<DEAD, ALIVE, DEAD, ALIVE, DEAD, DEAD>>

\* C17: four rotate(k) calls in a row return a grid of the width, height
\* and cells of the first source, and one rotate(k) with k mod 4 = 0 returns
\* a grid of the width, height and cells of its source.
C17_FourRotationsAreIdentity ==
    /\ call.op = "rotate_four" =>
          (call.status = "ok" /\ call.result = call.pre /\ grid = call.pre)
    /\ (call.op = "rotate" /\ call.args[1] % 4 = 0) =>
          (call.status = "ok" /\ call.result = call.pre /\ grid = call.pre)

\* C17 witness: four quarter turns against the clock of a 3 x 2 grid with
\* ALIVE and DEAD cells gave the grid back
C17_Witness ==
    /\ call.op = "rotate_four" /\ call.args[1] = -1
    /\ call.pre.width = 3 /\ call.pre.height = 2
    /\ call.pre.cells = <<ALIVE, ALIVE, DEAD, DEAD, DEAD, DEAD>>
    /\ call.result = call.pre

--------------------------------------------------------------------------
(* Claims about the ascii codec *)

C19_BrokenTextRejected ==
    call.op \in BrokenKinds =>
        (call.status = "error" /\ call.result = EmptyGrid)

--------------------------------------------------------------------------
(* Claims about byte streams that end early *)

\* the word in the 4 bytes of the stream from index k on, the lowest first
HeaderWord(stream, k) ==
    stream[k + 1] + 256 * stream[k + 2] + 65536 * stream[k + 3] + 16777216 * stream[k + 4]

\* the stream has fewer than 8 bytes, or fewer than 8 + ceil(width * height
\* / 8) bytes for the width and height in its header
EndsEarly(stream) ==
    \/ Len(stream) < 8
    \/ Len(stream) < 8 + ((HeaderWord(stream, 0) * HeaderWord(stream, 4) + 7) \div 8)

\* C20: load_binary of a byte stream of fewer than 8 + ceil(width * height
\* / 8) bytes, width and height being the words of its header, or of fewer
\* than the 8 bytes of a header, throws and returns no grid.
C20_ShortStreamRejected ==
    (call.op = "load_bytes" /\ EndsEarly(file)) =>
        (call.status = "error" /\ call.result = EmptyGrid /\ grid = call.pre)

\* C20 witness: a stream with the header (3, 3) and one byte of the two its
\* 9 cells need was refused
C20_Witness ==
    /\ call.op = "load_bytes" /\ call.status = "error"
    /\ file = <<3, 0, 0, 0, 3, 0, 0, 0, 255>>

--------------------------------------------------------------------------
(* Claims about what merge leaves alone *)

\* (x, y) is under other when other lies with its corner at (x0, y0)
InWindow(other, x0, y0, x, y) ==
    /\ x0 <= x /\ x - x0 \in Side(other.width)
    /\ y0 <= y /\ y - y0 \in Side(other.height)

\* C24: a merge that returns, of an other that fits, with either value of
\* alive_only, leaves the destination's width and height and every
\* destination cell outside the window [x0, x0 + other.width) x
\* [y0, y0 + other.height) as they were.
C24_MergeKeepsOutside ==
    (/\ call.op = "merge" /\ call.status = "ok"
     /\ Fits(call.pre, call.other, call.args[1], call.args[2])) =>
        /\ grid.width = call.pre.width
        /\ grid.height = call.pre.height
        /\ \A x \in Side(call.pre.width), y \in Side(call.pre.height) :
              ~InWindow(call.other, call.args[1], call.args[2], x, y) =>
                  At(grid, x, y) = At(call.pre, x, y)

--------------------------------------------------------------------------
(* Claims about World *)

\* C21: after a step the current grid, which get_state returns, has the
\* width and height it had, and each of its cells (x, y) is ALIVE exactly
\* when the cell was ALIVE before the step with 2 or 3 ALIVE neighbours, or
\* DEAD with exactly 3, and is DEAD otherwise.
C21_StepAppliesRule ==
    call.op = "step" =>
        LET old == call.before.current
            new == world.current
        IN  /\ call.result = new
            /\ new.width = old.width /\ new.height = old.height
            /\ Len(new.cells) = Len(old.cells)
            /\ \A x \in Side(old.width), y \in Side(old.height) :
                  LET n == count_neighbours(call.before, x, y, call.toroidal)
                  IN  /\ At(new, x, y) \in Cell
                      /\ (At(new, x, y) = ALIVE) <=>
                             \/ At(old, x, y) = ALIVE /\ n \in {2, 3}
                             \/ At(old, x, y) = DEAD /\ n = 3

\* C21 witness: a step without wrapping of the 3 x 3 world with its middle
\* row ALIVE left the middle column ALIVE
C21_Witness ==
    /\ call.op = "step" /\ ~call.toroidal
    /\ call.before.current = [width |-> 3, height |-> 3,
           cells |-> <<DEAD, DEAD, DEAD, ALIVE, ALIVE, ALIVE, DEAD, DEAD, DEAD>>]
    /\ world.current = [width |-> 3, height |-> 3,
           cells |-> <<DEAD, ALIVE, DEAD, DEAD, ALIVE, DEAD, DEAD, ALIVE, DEAD>>]

\* C22: a step leaves the grid that was current, cell for cell as it was
\* before the step, as the next buffer, and the new current grid is the one
\* the step gives when the next buffer starts all DEAD: nothing the next
\* buffer held before the step is in the result.
C22_StepReadsOldStateOnly ==
    call.op = "step" =>
        /\ world.next = call.before.current
        /\ world.current = step(WorldOf(call.before.current), call.toroidal).current

\* C22 witness: a step was taken on a world whose next buffer held an ALIVE
\* cell where the new generation has a DEAD one
C22_Witness ==
    /\ call.op = "step"
    /\ \E n \in 1..Len(world.current.cells) :
          call.before.next.cells[n] = ALIVE /\ world.current.cells[n] = DEAD

\* the 8 offsets of the neighbours of a cell
NeighbourOffsets == ((-1..1) \X (-1..1)) \ {<<0, 0>>}

\* C23: count_neighbours(x, y, toroidal) returns the number, from 0 to 8, of
\* the offsets (dx, dy) other than (0, 0) with dx, dy in -1..1 for which the
\* cell of current at (x + dx, y + dy) is ALIVE, a coordinate outside the
\* grid being DEAD without toroidal and taken modulo width and height with
\* it; the world is left as it was.
C23_CountsEightNeighbours ==
    call.op = "count_neighbours" =>
        LET g == call.before.current
            x == call.args[1]
            y == call.args[2]
            alive == {d \in NeighbourOffsets :
                        IF call.toroidal
                        THEN g.cells[((y + d[2]) % g.height) * g.width
                                     + ((x + d[1]) % g.width) + 1] = ALIVE
                        ELSE /\ x + d[1] \in Side(g.width)
                             /\ y + d[2] \in Side(g.height)
                             /\ g.cells[(y + d[2]) * g.width + x + d[1] + 1] = ALIVE}
        IN  /\ call.args[3] = Cardinality(alive)
            /\ call.args[3] \in 0..8
            /\ world = call.before

\* C23 witness: in a 3 x 3 world whose only ALIVE cell is (2, 2), the cell
\* (0, 0) has one neighbour with toroidal, the cell at (-1, -1) wrapped
C23_Witness ==
    /\ call.op = "count_neighbours" /\ call.toroidal
    /\ call.args = <<0, 0, 1>>
    /\ call.before.current = [width |-> 3, height |-> 3,
           cells |-> <<DEAD, DEAD, DEAD, DEAD, DEAD, DEAD, DEAD, DEAD, ALIVE>>]
==========================================================================
